---- MODULE Spec2Model ----
(***************************************************************************)
(* Sparse table (Python/SparseTable.py): a table of power-of-two block     *)
(* combinations built once over a sequence, and the two range queries      *)
(* (accumulation, comparison) answered from it.                            *)
(*                                                                         *)
(* Python objects are modelled by references into `heap'; a list is a      *)
(* sequence of references.  Python's 0-based index j is position j + 1.    *)
(***************************************************************************)
EXTENDS Integers, Sequences, FiniteSets, TLC

\* ---------------------------------------------------------------- bounds
MaxLen == 5        \* longest sequence of integers
MaxElem == 2       \* the integers are drawn from 1..MaxElem
MaxFreeLen == 7    \* longest sequence of list tokens
MaxMutLen == 2     \* longest sequence of SpecMut
MaxMuts == 2       \* external mutations of the source list in SpecMut

VARIABLES
    func,      \* self._func, by name: "add", "min", "concat" or "pair"
    heap,      \* the object store: heap[r] is the value of object r
    seq,       \* self._seq: the caller's list (a sequence of references)
    _length,   \* self._length
    _table,    \* self._table: a list of lists of references
    S,         \* the values of the sequence when the table was built
    call,      \* the arguments of the last call of query()
    outcome,   \* what that call did: returned a value or raised
    trace,     \* its normalised arguments and the table cells it read
    muts       \* external mutations of the source list still allowed

vars == <<func, heap, seq, _length, _table, S, call, outcome, trace, muts>>

\* ------------------------------------------------------------ QueryType
ACCUMULATION == "ACCUMULATION"
COMPARISON == "COMPARISON"
QueryType == {ACCUMULATION, COMPARISON}

\* ------------------------------------------------------ integer helpers
RECURSIVE bit_length(_)
\* int.bit_length(): the number of bits of |n|
bit_length(n) ==
    IF n < 0 THEN bit_length(-n)
    ELSE IF n = 0 THEN 0 ELSE 1 + bit_length(n \div 2)

\* 1 << k
Shl(k) == 2 ^ k

RECURSIVE BitAnd(_, _)
\* a & b, for a >= 0 (b may be -1 only when a = 0)
BitAnd(a, b) ==
    IF a = 0 \/ b = 0 THEN 0
    ELSE (IF a % 2 = 1 /\ b % 2 = 1 THEN 1 ELSE 0) + 2 * BitAnd(a \div 2, b \div 2)

\* ------------------------------------------------- the combine operators
AssociativeFuncs == {"add", "min", "concat"}
ListFuncs == {"concat", "pair"}
Funcs == AssociativeFuncs \cup ListFuncs

\* self._func(a, b) on values.  "pair" is a free binary operator (it
\* satisfies no law): the term f(a, b) in prefix notation, 0 being f.
Apply(f, a, b) ==
    CASE f = "add" -> a + b
      [] f = "min" -> IF b < a THEN b ELSE a
      [] f = "concat" -> a \o b
      [] f = "pair" -> <<0>> \o a \o b

\* ------------------------------------------------------------ the heap
\* a new object holding value v
Store(h, v) == [heap |-> Append(h, v), ref |-> Len(h) + 1]

\* deepcopy left out: the table cell is the caller's object
deepcopy_shared(h, x) == [heap |-> h, ref |-> x]

\* copy.deepcopy(x): a new object, equal to x and sharing nothing with it
deepcopy(h, x) == Store(h, h[x])

\* self._func(a, b) on objects: min returns one of its operands, the other
\* operators build a new object
Combine(h, f, a, b) ==
    IF f = "min" THEN [heap |-> h, ref |-> IF h[b] < h[a] THEN b ELSE a]
    ELSE Store(h, Apply(f, h[a], h[b]))

\* ------------------------------------------------------ _generate_table
RECURSIVE CopyRow(_, _, _)
\* [deepcopy(x) for x in self._seq], from position j on
CopyRow(h, s, j) ==
    IF j > Len(s) THEN [heap |-> h, row |-> <<>>]
    ELSE LET c == deepcopy(h, s[j])
             rest == CopyRow(c.heap, s, j + 1)
         IN [heap |-> rest.heap, row |-> <<c.ref>> \o rest.row]

RECURSIVE BuildRow_adjacent(_, _, _, _, _, _)
\* the right half taken at j + 1 instead of j + (1 << (i - 1))
BuildRow_adjacent(h, f, prev, i, n, j) ==
    IF j >= n - Shl(i) + 1 THEN [heap |-> h, row |-> <<>>]
    ELSE LET c == Combine(h, f, prev[j + 1], prev[j + 2])
             rest == BuildRow_adjacent(c.heap, f, prev, i, n, j + 1)
         IN [heap |-> rest.heap, row |-> <<c.ref>> \o rest.row]

RECURSIVE BuildRow(_, _, _, _, _, _)
\* [func(table[i-1][j], table[i-1][j + (1 << (i-1))])
\*      for j in range(length - (1 << i) + 1)], from index j on
BuildRow(h, f, prev, i, n, j) ==
    IF j >= n - Shl(i) + 1 THEN [heap |-> h, row |-> <<>>]
    ELSE LET c == Combine(h, f, prev[j + 1], prev[j + Shl(i - 1) + 1])
             rest == BuildRow(c.heap, f, prev, i, n, j + 1)
         IN [heap |-> rest.heap, row |-> <<c.ref>> \o rest.row]

RECURSIVE BuildLevels(_, _, _, _, _)
\* table.extend(<row i> for i in range(1, length.bit_length())), from i on
BuildLevels(h, f, t, i, n) ==
    IF i >= bit_length(n) THEN [heap |-> h, table |-> t]
    ELSE LET r == BuildRow(h, f, t[i], i, n, 0)
         IN BuildLevels(r.heap, f, Append(t, r.row), i + 1, n)

_generate_table(h, f, s, n) ==
    LET c == CopyRow(h, s, 1)
    IN BuildLevels(c.heap, f, <<c.row>>, 1, n)

\* ------------------------------------------------------------- __init__
NoCall == [start_index |-> 0, length |-> 0, query_type |-> "none"]
NoOutcome == [kind |-> "none", value |-> 0, error |-> "none"]
NoTrace == [start_index |-> 0, length |-> 0, reads |-> <<>>]

\* SparseTable(seq, func) over a list of n new objects with values vals
Constructed(f, n, vals, m) ==
    LET s == [j \in 1..n |-> j]
        g == _generate_table(vals, f, s, n)
    IN /\ func = f
       /\ seq = s
       /\ _length = n
       /\ heap = g.heap
       /\ _table = g.table
       /\ S = vals
       /\ call = NoCall
       /\ outcome = NoOutcome
       /\ trace = NoTrace
       /\ muts = m

\* the inputs: integer sequences for the integer operators; for the list
\* operators the sequence of distinct singleton tokens <<1>>, ..., <<n>>
Inputs(f, n) ==
    IF f \in ListFuncs THEN {[j \in 1..n |-> <<j>>]} ELSE [1..n -> 1..MaxElem]

InputLengths(f) ==
    IF f \in ListFuncs THEN 0..MaxFreeLen ELSE 0..MaxLen

Init ==
    \E f \in Funcs : \E n \in InputLengths(f) : \E vals \in Inputs(f, n) :
        Constructed(f, n, vals, 0)

InitMut ==
    \E f \in Funcs : \E n \in 1..MaxMutLen : \E vals \in Inputs(f, n) :
        Constructed(f, n, vals, MaxMuts)

\* ---------------------------------------------------------------- query
IndexBelowMinimum == "IndexError: Index is less than the minimum index."
IndexAboveMaximum == "IndexError: Index is greater than the maximum index."
LengthNotPositive == "IndexError: Length is not positive."

\* list.__getitem__: a negative index counts from the end
GetItem(list, j) ==
    LET p == IF j < 0 THEN j + Len(list) ELSE j
    IN IF 0 <= p /\ p < Len(list)
       THEN [raised |-> FALSE, item |-> list[p + 1]]
       ELSE [raised |-> TRUE, item |-> <<>>]

Raised(rd) == [raised |-> TRUE, value |-> 0, reads |-> rd]

\* self._table[k][j]: the value read, and the cell as a read
Lookup(k, j) ==
    LET row == GetItem(_table, k)
    IN IF row.raised THEN Raised(<<>>)
       ELSE LET cell == GetItem(row.item, j)
            IN IF cell.raised THEN Raised(<<>>)
               ELSE [raised |-> FALSE, value |-> heap[cell.item],
                     reads |-> << <<k, j>> >>]

\* the operands of self._func swapped
CallFunc_swapped(a, b) ==
    IF a.raised THEN a
    ELSE IF b.raised THEN Raised(a.reads \o b.reads)
    ELSE [raised |-> FALSE, value |-> Apply(func, b.value, a.value),
          reads |-> a.reads \o b.reads]

\* self._func(a, b), its operands evaluated left to right
CallFunc(a, b) ==
    IF a.raised THEN a
    ELSE IF b.raised THEN Raised(a.reads \o b.reads)
    ELSE [raised |-> FALSE, value |-> Apply(func, a.value, b.value),
          reads |-> a.reads \o b.reads]

RECURSIVE AccumulateLeft(_, _, _)
AccumulateLeft(acc, start_index, length) ==
    IF length <= 0 THEN acc
    ELSE LET log_2 == bit_length(length) - 1
         IN AccumulateLeft(CallFunc(acc, Lookup(log_2, start_index)),
                           start_index + Shl(log_2), length - Shl(log_2))

\* the loop over the set bits of length, accumulating on the left
_query_acc_left(start_index, length) ==
    LET log_2 == bit_length(length) - 1
    IN AccumulateLeft(Lookup(log_2, start_index),
                      start_index + Shl(log_2), length - Shl(log_2))

RECURSIVE _query_acc_stuck(_, _)
\* the recursion shortens the length but does not advance the start
_query_acc_stuck(start_index, length) ==
    LET log_2 == bit_length(length) - 1
    IN IF BitAnd(length, length - 1) = 0
       THEN Lookup(log_2, start_index)
       ELSE CallFunc(Lookup(log_2, start_index),
                     _query_acc_stuck(start_index, length - Shl(log_2)))

RECURSIVE _query_acc(_, _)
_query_acc(start_index, length) ==
    LET log_2 == bit_length(length) - 1
    IN IF BitAnd(length, length - 1) = 0
       THEN Lookup(log_2, start_index)
       ELSE CallFunc(Lookup(log_2, start_index),
                     _query_acc(start_index + Shl(log_2), length - Shl(log_2)))

\* the back block taken one cell too early
_query_cmp_early(start_index, length) ==
    LET log_2 == bit_length(length) - 1
    IN CallFunc(Lookup(log_2, start_index),
                Lookup(log_2, start_index + length - Shl(log_2) - 1))

_query_cmp(start_index, length) ==
    LET log_2 == bit_length(length) - 1
    IN CallFunc(Lookup(log_2, start_index),
                Lookup(log_2, start_index + length - Shl(log_2)))

\* start_index > length in place of start_index >= length
CheckIndex_inclusive(start_index) ==
    IF start_index < -_length THEN IndexBelowMinimum
    ELSE IF start_index > _length THEN IndexAboveMaximum
    ELSE "none"

\* the sanity check of the starting index: the error raised, or "none"
CheckIndex(start_index) ==
    IF start_index < -_length THEN IndexBelowMinimum
    ELSE IF start_index >= _length THEN IndexAboveMaximum
    ELSE "none"

\* length < 0 in place of length <= 0
CheckLength_zero(length) ==
    IF length < 0 THEN LengthNotPositive ELSE "none"

\* the sanity check of the length
CheckLength(length) ==
    IF length <= 0 THEN LengthNotPositive ELSE "none"

\* a negative starting index left as it is
AdaptIndex_none(start_index) == start_index

\* start_index += (start_index < 0) * len(self._table[0])
AdaptIndex(start_index) ==
    start_index + (IF start_index < 0 THEN 1 ELSE 0) * Len(_table[1])

\* the length left as it is
ShortenLength_none(start_index, length) == length

\* length = min(length, len(self._table[0]) - start_index)
ShortenLength(start_index, length) ==
    LET rest == Len(_table[1]) - start_index
    IN IF rest < length THEN rest ELSE length

\* query_func(start_index, length)
Dispatch(start_index, length, query_type) ==
    IF query_type = ACCUMULATION THEN _query_acc(start_index, length)
    ELSE _query_cmp(start_index, length)

Raise(e, s, l) ==
    [outcome |-> [kind |-> "raise", value |-> 0, error |-> e],
     trace |-> [start_index |-> s, length |-> l, reads |-> <<>>]]

query(start_index, length, query_type) ==
    IF CheckIndex(start_index) # "none"
    THEN Raise(CheckIndex(start_index), start_index, length)
    ELSE IF CheckLength(length) # "none"
    THEN Raise(CheckLength(length), start_index, length)
    ELSE LET s == AdaptIndex(start_index)
             l == ShortenLength(s, length)
             r == Dispatch(s, l, query_type)
         IN [outcome |-> IF r.raised
                         THEN [kind |-> "raise", value |-> 0,
                               error |-> "IndexError: list index out of range"]
                         ELSE [kind |-> "return", value |-> r.value,
                               error |-> "none"],
             trace |-> [start_index |-> s, length |-> l, reads |-> r.reads]]

\* the arguments the callers of the model try
StartIndices == (-(_length + 1)).._length
Lengths == (-1)..(_length + 1)

\* a call of query(), made when no outcome is pending (single-threaded)
Query(start_index, length, query_type) ==
    LET q == query(start_index, length, query_type)
    IN /\ call = NoCall
       /\ call' = [start_index |-> start_index, length |-> length,
                   query_type |-> query_type]
       /\ outcome' = q.outcome
       /\ trace' = q.trace
       /\ UNCHANGED <<func, heap, seq, _length, _table, S, muts>>

\* the caller takes the outcome; the next call can be made
Returned ==
    /\ call # NoCall
    /\ call' = NoCall
    /\ outcome' = NoOutcome
    /\ trace' = NoTrace
    /\ UNCHANGED <<func, heap, seq, _length, _table, S, muts>>

\* ------------------------- the caller's later use of the list it passed
\* a value no input holds
Fresh == IF func \in ListFuncs THEN <<0>> ELSE 0

\* seq[j].append(0): a list element is changed in place
MutateElement(j) ==
    /\ call = NoCall /\ muts > 0 /\ func \in ListFuncs
    /\ j \in 1..Len(seq)
    /\ heap' = [heap EXCEPT ![seq[j]] = Append(@, 0)]
    /\ muts' = muts - 1
    /\ UNCHANGED <<func, seq, _length, _table, S, call, outcome, trace>>

\* seq[j] = <a new object>
SetItem(j) ==
    /\ call = NoCall /\ muts > 0
    /\ j \in 1..Len(seq)
    /\ heap' = Store(heap, Fresh).heap
    /\ seq' = [seq EXCEPT ![j] = Store(heap, Fresh).ref]
    /\ muts' = muts - 1
    /\ UNCHANGED <<func, _length, _table, S, call, outcome, trace>>

\* seq.pop()
PopItem ==
    /\ call = NoCall /\ muts > 0
    /\ Len(seq) > 0
    /\ seq' = SubSeq(seq, 1, Len(seq) - 1)
    /\ muts' = muts - 1
    /\ UNCHANGED <<func, heap, _length, _table, S, call, outcome, trace>>

Next ==
    \/ \E start_index \in StartIndices, length \in Lengths, query_type \in QueryType :
           Query(start_index, length, query_type)
    \/ Returned

NextMut ==
    \/ Next
    \/ \E j \in 1..MaxMutLen : MutateElement(j)
    \/ \E j \in 1..MaxMutLen : SetItem(j)
    \/ PopItem

Spec == Init /\ [][Next]_vars

SpecMut == InitMut /\ [][NextMut]_vars

\* ------------------------------------------------- reference definitions
\* N, the length of the sequence the table was built over
N == Len(S)

\* floor(log2(n)) for n >= 1
FloorLog2(n) == CHOOSE k \in 0..n : 2 ^ k <= n /\ n < 2 ^ (k + 1)

\* S[i .. i + len), i counted from 0
Slice(i, len) == SubSeq(S, i + 1, i + len)

RECURSIVE Fold(_, _)
\* the left-to-right fold of f over a non-empty sequence, by direct iteration
Fold(f, s) ==
    IF Len(s) = 1 THEN s[1]
    ELSE Apply(f, Fold(f, SubSeq(s, 1, Len(s) - 1)), s[Len(s)])

\* the least element of a non-empty sequence of integers
MinOf(s) == CHOOSE m \in {s[j] : j \in 1..Len(s)} : \A j \in 1..Len(s) : m <= s[j]

\* the values the table holds
TableView == [k \in 1..Len(_table) |-> [j \in 1..Len(_table[k]) |-> heap[_table[k][j]]]]

\* the values the caller's list holds now
SourceView == [j \in 1..Len(seq) |-> heap[seq[j]]]

\* a call was made and its outcome is pending
Called == call # NoCall

\* the start index is in [-N, N) and the length is positive
Validated == Called /\ -N <= call.start_index /\ call.start_index < N /\ call.length >= 1

OutOfRange == {IndexBelowMinimum, IndexAboveMaximum}
InvalidLength == LengthNotPositive

SameOutcome(a, b) ==
    /\ a.kind = b.kind
    /\ a.error = b.error
    /\ a.kind = "return" => a.value = b.value

\* the value of the block read by trace.reads[p]
Block(p) == TableView[trace.reads[p][1] + 1][trace.reads[p][2] + 1]

RECURSIVE LeftNest(_)
\* combine(combine(combine(B1, B2), B3), ..., Bm) over the first m blocks
LeftNest(m) == IF m = 1 THEN Block(1) ELSE Apply(func, LeftNest(m - 1), Block(m))

RECURSIVE RightNest(_)
\* combine(Bp, combine(Bp+1, ... combine(Bm-1, Bm))) over the blocks from p on
RightNest(p) ==
    IF p = Len(trace.reads) THEN Block(p) ELSE Apply(func, Block(p), RightNest(p + 1))

\* --------------------------------------------------------------- claims

\* C1: over an associative operator, an accumulation query with
\* 0 <= i < N and 1 <= len <= N - i returns the left-to-right fold of the
\* operator over S[i .. i+len) in index order (len = 1 gives S[i], and
\* (0, N) the fold of the whole sequence).
C1_AccumulationIsFold ==
    (/\ Called /\ call.query_type = ACCUMULATION /\ func \in AssociativeFuncs
     /\ 0 <= call.start_index /\ call.start_index < N
     /\ 1 <= call.length /\ call.length <= N - call.start_index)
    => /\ outcome.kind = "return"
       /\ outcome.value = Fold(func, Slice(call.start_index, call.length))
       /\ call.length = 1 => outcome.value = S[call.start_index + 1]

C1_Witness ==
    /\ func = "concat" /\ call.query_type = ACCUMULATION
    /\ call.start_index = 0 /\ call.length = 7 /\ N = 7
    /\ outcome.kind = "return" /\ Len(outcome.value) = 7

\* C2: with combine = min, a comparison query with 0 <= i < N and
\* 1 <= len <= N - i returns the minimum of S[i .. i+len), whether or not
\* len is a power of two.
C2_ComparisonIsMin ==
    (/\ Called /\ call.query_type = COMPARISON /\ func = "min"
     /\ 0 <= call.start_index /\ call.start_index < N
     /\ 1 <= call.length /\ call.length <= N - call.start_index)
    => /\ outcome.kind = "return"
       /\ outcome.value = MinOf(Slice(call.start_index, call.length))

C2_Witness ==
    /\ func = "min" /\ call.query_type = COMPARISON
    /\ call.length = 3 /\ call.start_index = 1 /\ N = 5
    /\ S[2] = 2 /\ S[3] = 2 /\ S[4] = 1
    /\ outcome.kind = "return" /\ outcome.value = 1

\* C3: the table built over a sequence of length N with an associative
\* operator has floor(log2(N)) + 1 levels when N >= 1 and one empty level
\* when N = 0; level 0 is the input; level i has N - 2^i + 1 entries and
\* its entry j is the fold of the operator over S[j .. j + 2^i).
C3_TableIsReference ==
    func \in AssociativeFuncs =>
       /\ _length = N
       /\ Len(_table) = (IF N >= 1 THEN FloorLog2(N) + 1 ELSE 1)
       /\ N = 0 => TableView = << <<>> >>
       /\ TableView[1] = S
       /\ \A i \in 0..(Len(_table) - 1) :
             /\ Len(_table[i + 1]) = N - 2 ^ i + 1
             /\ \A j \in 0..(N - 2 ^ i) :
                   TableView[i + 1][j + 1] = Fold(func, Slice(j, 2 ^ i))

C3_Witness ==
    /\ func = "add" /\ N = 5 /\ ~Called
    /\ Len(_table) = 3 /\ Len(_table[3]) = 2
    /\ S = <<1, 2, 2, 1, 2>> /\ TableView[3] = <<6, 7>>

\* C4: a call whose start_index is below -N or at least N raises the
\* out-of-range error, whatever the length and the discipline; so every
\* call on a table over the empty sequence does.
C4_OutOfRange ==
    (Called /\ (call.start_index < -N \/ call.start_index >= N \/ N = 0))
    => outcome.kind = "raise" /\ outcome.error \in OutOfRange

C4_Witness ==
    /\ Called /\ N = 0 /\ call.start_index = 0 /\ call.length = 1
    /\ outcome.kind = "raise" /\ outcome.error = IndexAboveMaximum

\* C5 as stated: every call with length <= 0 raises the invalid-length
\* error.
C5_Original ==
    (Called /\ call.length <= 0)
    => outcome.kind = "raise" /\ outcome.error = InvalidLength

\* C5 as amended: every call with length <= 0 and -N <= start_index < N
\* raises the invalid-length error, whose message differs from those of
\* the out-of-range error.
C5_InvalidLength ==
    /\ InvalidLength \notin OutOfRange
    /\ (Called /\ call.length <= 0 /\ -N <= call.start_index /\ call.start_index < N)
       => outcome.kind = "raise" /\ outcome.error = InvalidLength

C5_Witness ==
    /\ Called /\ call.length = 0 /\ call.start_index = -N /\ N >= 1
    /\ outcome.kind = "raise" /\ outcome.error = InvalidLength

\* C6: a call with 0 <= i < N and i + len > N raises nothing and returns
\* what query(i, N - i, D) returns; the clamped length is at least 1.
C6_Truncation ==
    (/\ Called /\ 0 <= call.start_index /\ call.start_index < N
     /\ call.start_index + call.length > N)
    => /\ outcome.kind = "return"
       /\ SameOutcome(outcome,
             query(call.start_index, N - call.start_index, call.query_type).outcome)
       /\ trace.length = N - call.start_index
       /\ trace.length >= 1

C6_Witness ==
    /\ Called /\ func = "add" /\ call.query_type = ACCUMULATION
    /\ N = 5 /\ call.start_index = 2 /\ call.length = 6
    /\ trace.length = 3 /\ outcome.kind = "return"

\* C7: for 1 <= k <= N and len >= 1, query(-k, len, D) has the outcome of
\* query(N - k, len, D); a non-negative start index is left as it is.
C7_NegativeIndex ==
    /\ (Validated /\ call.start_index < 0)
       => /\ SameOutcome(outcome,
                query(N + call.start_index, call.length, call.query_type).outcome)
          /\ outcome.kind = "return"
          /\ trace.start_index = N + call.start_index
    /\ (Validated /\ call.start_index >= 0)
       => trace.start_index = call.start_index

C7_Witness ==
    /\ Called /\ func = "add" /\ N = 5
    /\ call.start_index = -3 /\ call.length = 2
    /\ trace.start_index = 2 /\ outcome.kind = "return"

\* the table of values over the sequence vals, by the recurrence
\* table[i][j] = combine(table[i-1][j], table[i-1][j + 2^(i-1)])
RECURSIVE TableOf(_, _, _)
TableOf(f, t, n) ==
    IF 2 ^ Len(t) > n THEN t
    ELSE LET i == Len(t)
             row == [j \in 1..(n - 2 ^ i + 1) |->
                        Apply(f, t[i][j], t[i][j + 2 ^ (i - 1)])]
         IN TableOf(f, Append(t, row), n)

\* C8: whatever queries and mutations of the source list have happened,
\* the table is the one built at construction from the sequence as it was
\* then.
C8_TableImmutable ==
    /\ TableView = TableOf(func, <<S>>, N)
    /\ _length = N

C8_Witness ==
    /\ muts = 0 /\ SourceView # S /\ Len(seq) = N /\ func = "concat"
    /\ heap[seq[1]] # S[1]
    /\ Called /\ outcome.kind = "return"

\* C9 as stated: an accumulation query over blocks B1, ..., Bm returns
\* combine(combine(combine(B1, B2), B3), ..., Bm), for any operator.
C9_Original ==
    (Validated /\ call.query_type = ACCUMULATION /\ outcome.kind = "return")
    => outcome.value = LeftNest(Len(trace.reads))

\* C9 as amended: an accumulation query over blocks B1, ..., Bm in index
\* order returns combine(B1, combine(B2, ... combine(Bm-1, Bm))): every
\* call has a single block as its first operand and the accumulated rest
\* to the right as its second, for any operator.
C9_RightNested ==
    (Validated /\ call.query_type = ACCUMULATION)
    => /\ outcome.kind = "return"
       /\ outcome.value = RightNest(1)

C9_Witness ==
    /\ func = "pair" /\ call.query_type = ACCUMULATION
    /\ Len(trace.reads) = 3 /\ outcome.kind = "return"
    /\ outcome.value # LeftNest(3)

\* the block [j, j + 2^k) of the read <<k, j>>
BlockStart(r) == r[2]
BlockEnd(r) == r[2] + 2 ^ r[1]

\* C10: a validated query raises nothing; every cell table[k][j] it reads
\* has 0 <= k <= floor(log2(N)) and 0 <= j <= N - 2^k; an accumulation
\* query reads at most floor(log2(length)) + 1 blocks of strictly
\* decreasing sizes, adjacent and covering [start, start + length); a
\* comparison query reads two blocks inside [start, start + length) that
\* cover it.
C10_ReadsInBounds ==
    Validated =>
      LET rd == trace.reads
          m == Len(rd)
          lo == trace.start_index
          hi == trace.start_index + trace.length
      IN /\ outcome.kind = "return"
         /\ 0 <= lo /\ lo < hi /\ hi <= N
         /\ m >= 1
         /\ \A p \in 1..m :
               /\ 0 <= rd[p][1] /\ rd[p][1] <= FloorLog2(N)
               /\ 0 <= rd[p][2] /\ rd[p][2] <= N - 2 ^ rd[p][1]
         /\ call.query_type = ACCUMULATION =>
               /\ m <= FloorLog2(trace.length) + 1
               /\ BlockStart(rd[1]) = lo
               /\ BlockEnd(rd[m]) = hi
               /\ \A p \in 1..(m - 1) :
                     /\ BlockEnd(rd[p]) = BlockStart(rd[p + 1])
                     /\ rd[p + 1][1] < rd[p][1]
         /\ call.query_type = COMPARISON =>
               /\ m = 2
               /\ rd[1][1] = FloorLog2(trace.length) /\ rd[2][1] = rd[1][1]
               /\ BlockStart(rd[1]) = lo /\ BlockEnd(rd[2]) = hi
               /\ BlockEnd(rd[1]) <= hi /\ BlockStart(rd[2]) >= lo
               /\ BlockStart(rd[2]) <= BlockEnd(rd[1])

C10_Witness ==
    /\ func = "concat" /\ call.query_type = ACCUMULATION /\ N = 7
    /\ call.start_index = -7 /\ call.length = 8
    /\ trace.start_index = 0 /\ trace.length = 7
    /\ trace.reads = << <<2, 0>>, <<1, 4>>, <<0, 6>> >>
    /\ outcome.kind = "return"

====
